---- MODULE Spec2Model ----
(***************************************************************************)
(* Model of lsmdb's in-memory write and read path (src/src/lib.rs): the    *)
(* active memtable, the optional frozen memtable, the size counter, point  *)
(* lookup and the merging prefix iterator.                                 *)
(*                                                                         *)
(* Keys are strings, modelled as sequences of the characters in Chars; the *)
(* order on keys is Rust's String order (lexicographic on bytes).  Values  *)
(* are byte vectors, modelled as sequences of the bytes in Bytes.  The     *)
(* size counter is a usize; it stays far below 2^64 (it is bounded by the  *)
(* bytes held in memory), so it is modelled as an unbounded natural.       *)
(***************************************************************************)
EXTENDS Integers, Sequences, FiniteSets, TLC

\* ------------------------------------------------------------------ bounds
\* Longest key, and longest seek prefix, drawn as an input.
MaxKeyLen == 2
\* Longest payload drawn as an input.
MaxValLen == 1
\* The size threshold (1 MiB in the source), scaled down so that the model
\* crosses it.
MEMTABLE_MAX_SIZE_BYTES == 4

Chars == {1, 2}
Bytes == {1}

RECURSIVE SeqsUpTo(_, _)
SeqsUpTo(S, n) ==
    IF n = 0 THEN {<<>>}
    ELSE LET shorter == SeqsUpTo(S, n - 1)
         IN  shorter \cup {Append(s, c) : s \in {t \in shorter : Len(t) = n - 1}, c \in S}

\* The keys drawn as inputs: the empty key, and the keys up to MaxKeyLen that
\* start with any character and go on with the first one ("", "1", "2", "11",
\* "21", ...), so that a key can extend another and can follow it without
\* extending it.
Keys == {k \in SeqsUpTo(Chars, MaxKeyLen) : \A i \in 2..Len(k) : k[i] = 1}
Prefixes == Keys
Values == SeqsUpTo(Bytes, MaxValLen)

\* ------------------------------------------------------------- data model
None == [some |-> FALSE]
Some(x) == [some |-> TRUE, val |-> x]

Present(value) == [tag |-> "Present", data |-> value]
Deleted == [tag |-> "Deleted"]
Entries == {Present(v) : v \in Values} \cup {Deleted}

\* Entry::len
EntryLen(entry) == IF entry.tag = "Present" THEN Len(entry.data) ELSE 1

\* BTreeMap::new
EmptyMap == [k \in {} |-> Deleted]

\* Mutant of MapInsert: an entry already under the key is kept (as with
\* entry().or_insert) and still reported as replaced.
MapInsertKeepsOld(map, key, entry) ==
    [map |-> [k \in DOMAIN map \cup {key} |-> IF k \in DOMAIN map THEN map[k] ELSE entry],
     old |-> IF key \in DOMAIN map THEN Some(map[key]) ELSE None]

\* BTreeMap::insert: the map with key bound to entry, and the entry it replaced.
MapInsert(map, key, entry) ==
    [map |-> [k \in DOMAIN map \cup {key} |-> IF k = key THEN entry ELSE map[k]],
     old |-> IF key \in DOMAIN map THEN Some(map[key]) ELSE None]

\* Mutant of KeyCmp: shorter keys first, keys of one length in lexicographic
\* order.
RECURSIVE KeyCmpShortlex(_, _)
KeyCmpShortlex(a, b) ==
    IF Len(a) < Len(b) THEN "Less"
    ELSE IF Len(a) > Len(b) THEN "Greater"
    ELSE IF a = <<>> THEN "Equal"
    ELSE IF Head(a) < Head(b) THEN "Less"
    ELSE IF Head(a) > Head(b) THEN "Greater"
    ELSE KeyCmpShortlex(Tail(a), Tail(b))

\* String's Ord: lexicographic comparison of the characters.
RECURSIVE KeyCmp(_, _)
KeyCmp(a, b) ==
    IF a = <<>> /\ b = <<>> THEN "Equal"
    ELSE IF a = <<>> THEN "Less"
    ELSE IF b = <<>> THEN "Greater"
    ELSE IF Head(a) < Head(b) THEN "Less"
    ELSE IF Head(a) > Head(b) THEN "Greater"
    ELSE KeyCmp(Tail(a), Tail(b))

\* Mutant of StartsWith: a prefix test that the empty prefix never passes.
StartsWithNonEmpty(key, prefix) ==
    /\ prefix # <<>>
    /\ Len(prefix) <= Len(key)
    /\ SubSeq(key, 1, Len(prefix)) = prefix

\* str::starts_with
StartsWith(key, prefix) ==
    /\ Len(prefix) <= Len(key)
    /\ SubSeq(key, 1, Len(prefix)) = prefix

\* The keys of S in ascending order (the BTreeMap's iteration order).
RECURSIVE SortedKeys(_)
SortedKeys(S) ==
    IF S = {} THEN <<>>
    ELSE LET least == CHOOSE k \in S : \A j \in S : KeyCmp(k, j) # "Greater"
         IN  <<least>> \o SortedKeys(S \ {least})

\* Mutant of MapRange: the lower bound excluded instead of included.
MapRangeExcluded(map, prefix) ==
    LET ks == SortedKeys({k \in DOMAIN map : KeyCmp(k, prefix) = "Greater"})
    IN  [i \in 1..Len(ks) |-> <<ks[i], map[ks[i]]>>]

\* BTreeMap::range((Included(prefix), Unbounded)): the (key, entry) pairs with
\* key >= prefix, ascending; what a cursor still has to deliver.
MapRange(map, prefix) ==
    LET ks == SortedKeys({k \in DOMAIN map : KeyCmp(k, prefix) # "Less"})
    IN  [i \in 1..Len(ks) |-> <<ks[i], map[ks[i]]>>]

\* -------------------------------------------------------------------- state
VARIABLES
    memtable,           \* DB.memtable: the active mapping
    memtable_frozen,    \* DB.memtable_frozen: None or Some(mapping)
    memtable_size,      \* DB.memtable_size
    panicked,           \* the assertion in _swap_and_compact has failed
    iter,               \* the live DBIterator borrowed from the DB, or None
    call,               \* the last call made on the DB or iterator, with its return
    scan,               \* history: what the live iterator has returned so far
    written             \* history: for each key ever written, its most recent write

vars == <<memtable, memtable_frozen, memtable_size, panicked, iter, call, scan, written>>

NoScan == [out |-> <<>>, ended |-> FALSE]

\* DB::open
Init ==
    /\ memtable = EmptyMap
    /\ memtable_frozen = None
    /\ memtable_size = 0
    /\ panicked = FALSE
    /\ iter = None
    /\ call = [op |-> "open"]
    /\ scan = NoScan
    /\ written = EmptyMap

\* ------------------------------------------------------------- write path
\* Mutant of SizeAfterInsert: the key's length is added on an overwrite too.
SizeAfterInsertCountsKeyAgain(size, key, entry, old) ==
    IF old.some THEN ((size + EntryLen(entry)) + Len(key)) - EntryLen(old.val)
    ELSE (size + EntryLen(entry)) + Len(key)

\* The counter update of _put_entry: the new entry's length is added, then
\* the replaced entry's length is taken off or, for a new key, the key's
\* length is added.
SizeAfterInsert(size, key, entry, old) ==
    IF old.some THEN (size + EntryLen(entry)) - EntryLen(old.val)
    ELSE (size + EntryLen(entry)) + Len(key)

\* Mutant of _swap_and_compact: no assertion; a frozen mapping in place is
\* replaced.
SwapWithoutAssert(mt, fr) ==
    [panic |-> FALSE, memtable |-> EmptyMap, frozen |-> Some(mt)]

\* Mutant of _swap_and_compact: a frozen mapping in place makes the freeze a
\* no-op instead of failing the assertion.
SwapSkipsWhenFrozen(mt, fr) ==
    IF fr.some
    THEN [panic |-> FALSE, memtable |-> mt, frozen |-> fr]
    ELSE [panic |-> FALSE, memtable |-> EmptyMap, frozen |-> Some(mt)]

\* DB::_swap_and_compact on active mapping mt and frozen slot fr: the
\* assertion fails when fr is occupied; otherwise mt moves into the slot and
\* a new empty mapping (mem::take) becomes the active one.
_swap_and_compact(mt, fr) ==
    IF fr.some
    THEN [panic |-> TRUE, memtable |-> mt, frozen |-> fr]
    ELSE [panic |-> FALSE, memtable |-> EmptyMap, frozen |-> Some(mt)]

\* The threshold test of _put_entry.
ReachedThreshold(size) == size >= MEMTABLE_MAX_SIZE_BYTES

\* Mutant of PutEntryResult: the threshold test and the swap run before the
\* insert, so the triggering write lands in the new active mapping.
PutEntryResultSwapsFirst(mt, fr, size, key, entry) ==
    LET old == MapInsert(mt, key, entry).old
        newSize == SizeAfterInsert(size, key, entry, old)
        swap == IF ReachedThreshold(newSize)
                THEN _swap_and_compact(mt, fr)
                ELSE [panic |-> FALSE, memtable |-> mt, frozen |-> fr]
    IN  [memtable |-> MapInsert(swap.memtable, key, entry).map, frozen |-> swap.frozen,
         size |-> newSize, panic |-> swap.panic, old |-> old]

\* Mutant of PutEntryResult: a write to a key that the frozen mapping holds
\* updates the frozen entry as well.
PutEntryResultUpdatesFrozen(mt, fr, size, key, entry) ==
    LET ins == MapInsert(mt, key, entry)
        newSize == SizeAfterInsert(size, key, entry, ins.old)
        fr2 == IF fr.some /\ key \in DOMAIN fr.val
               THEN Some(MapInsert(fr.val, key, entry).map)
               ELSE fr
        swap == IF ReachedThreshold(newSize)
                THEN _swap_and_compact(ins.map, fr2)
                ELSE [panic |-> FALSE, memtable |-> ins.map, frozen |-> fr2]
    IN  [memtable |-> swap.memtable, frozen |-> swap.frozen,
         size |-> newSize, panic |-> swap.panic, old |-> ins.old]

\* DB::_put_entry as a function of the store: the store it leaves, the
\* entry the insert replaced, and whether the call panicked instead of
\* returning.
PutEntryResult(mt, fr, size, key, entry) ==
    LET ins == MapInsert(mt, key, entry)
        newSize == SizeAfterInsert(size, key, entry, ins.old)
        swap == IF ReachedThreshold(newSize)
                THEN _swap_and_compact(ins.map, fr)
                ELSE [panic |-> FALSE, memtable |-> ins.map, frozen |-> fr]
    IN  [memtable |-> swap.memtable, frozen |-> swap.frozen,
         size |-> newSize, panic |-> swap.panic, old |-> ins.old]

\* DB::_put_entry, called by put and delete.  The &mut borrow ends every
\* iterator over the store.  A failed assertion unwinds out of the call
\* after the insert and the counter update, and nothing runs after it.
_put_entry(op, key, entry) ==
    LET r == PutEntryResult(memtable, memtable_frozen, memtable_size, key, entry)
    IN  /\ ~panicked
        /\ memtable' = r.memtable
        /\ memtable_frozen' = r.frozen
        /\ memtable_size' = r.size
        /\ panicked' = r.panic
        /\ iter' = None
        /\ scan' = NoScan
        /\ call' = [op |-> op, key |-> key, entry |-> entry, old |-> r.old,
                    ret |-> IF r.panic THEN "panic" ELSE "Ok"]
        /\ written' = MapInsert(written, key, entry).map

\* DB::put
Put(key, value) == _put_entry("put", key, Present(value))

\* Mutant of Delete: the key is removed from the active mapping
\* (BTreeMap::remove) instead of being given a tombstone.
DeleteRemoves(key) ==
    /\ ~panicked
    /\ memtable' = [k \in DOMAIN memtable \ {key} |-> memtable[k]]
    /\ memtable_size' = IF key \in DOMAIN memtable
                        THEN memtable_size - (Len(key) + EntryLen(memtable[key]))
                        ELSE memtable_size
    /\ iter' = None
    /\ scan' = NoScan
    /\ call' = [op |-> "delete", key |-> key, entry |-> Deleted,
                old |-> IF key \in DOMAIN memtable THEN Some(memtable[key]) ELSE None,
                ret |-> "Ok"]
    /\ written' = MapInsert(written, key, Deleted).map
    /\ UNCHANGED <<memtable_frozen, panicked>>

\* DB::delete
Delete(key) == _put_entry("delete", key, Deleted)

\* tests::seek_with_frozen_memtable calls _swap_and_compact directly.
Freeze ==
    LET r == _swap_and_compact(memtable, memtable_frozen)
    IN  /\ ~panicked
        /\ memtable' = r.memtable
        /\ memtable_frozen' = r.frozen
        /\ panicked' = r.panic
        /\ iter' = None
        /\ scan' = NoScan
        /\ call' = [op |-> "freeze", ret |-> IF r.panic THEN "panic" ELSE "Ok"]
        /\ UNCHANGED <<memtable_size, written>>

\* -------------------------------------------------------------- point lookup
\* DB::_get_from_memtable
_get_from_memtable(key, map) ==
    IF key \in DOMAIN map THEN Some(map[key]) ELSE None

\* Mutant of GetResult: a tombstone in the active mapping falls through to
\* the frozen mapping.
GetResultFallsThrough(mt, fr, key) ==
    LET first == _get_from_memtable(key, mt)
        result == IF (~first.some \/ first.val.tag = "Deleted") /\ fr.some
                  THEN _get_from_memtable(key, fr.val)
                  ELSE first
    IN  IF result.some /\ result.val.tag = "Present"
        THEN Some(result.val.data)
        ELSE None

\* Mutant of GetResult: the frozen mapping is consulted first.
GetResultFrozenFirst(mt, fr, key) ==
    LET first == IF fr.some THEN _get_from_memtable(key, fr.val) ELSE None
        result == IF ~first.some THEN _get_from_memtable(key, mt) ELSE first
    IN  IF result.some /\ result.val.tag = "Present"
        THEN Some(result.val.data)
        ELSE None

\* DB::get as a function of the two mappings.
GetResult(mt, fr, key) ==
    LET first == _get_from_memtable(key, mt)
        result == IF ~first.some /\ fr.some
                  THEN _get_from_memtable(key, fr.val)
                  ELSE first
    IN  IF result.some /\ result.val.tag = "Present"
        THEN Some(result.val.data)
        ELSE None

get(key) == GetResult(memtable, memtable_frozen, key)

\* Mutant of Get: an entry found only in the frozen mapping is copied into
\* the active mapping (a read-through cache).
GetPromotes(key) ==
    /\ ~panicked
    /\ call' = [op |-> "get", key |-> key, ret |-> get(key)]
    /\ memtable' = IF key \notin DOMAIN memtable /\ memtable_frozen.some
                      /\ key \in DOMAIN memtable_frozen.val
                   THEN MapInsert(memtable, key, memtable_frozen.val[key]).map
                   ELSE memtable
    /\ iter' = None
    /\ scan' = NoScan
    /\ UNCHANGED <<memtable_frozen, memtable_size, panicked, written>>

\* DB::get.  The model follows one borrow of the store at a time: a scan in
\* progress is dropped by the next call on the store.
Get(key) ==
    /\ ~panicked
    /\ call' = [op |-> "get", key |-> key, ret |-> get(key)]
    /\ iter' = None
    /\ scan' = NoScan
    /\ UNCHANGED <<memtable, memtable_frozen, memtable_size, panicked, written>>

\* ---------------------------------------------------------------- prefix scan
\* DB::seek: the iterator it builds; both cursors start at the first key
\* >= prefix of their mapping.
SeekResult(mt, fr, prefix) ==
    [iter_memtable_mut |-> MapRange(mt, prefix),
     iter_memtable_immut |-> IF fr.some THEN Some(MapRange(fr.val, prefix)) ELSE None,
     prefix |-> prefix]

seek(prefix) == SeekResult(memtable, memtable_frozen, prefix)

\* Peekable::peek on a cursor and on the optional frozen cursor.
Peek(cursor) == IF cursor = <<>> THEN None ELSE Some(Head(cursor))
PeekImmut(cursor) == IF cursor.some THEN Peek(cursor.val) ELSE None

\* Mutant of MergeStep: on equal keys the frozen cursor's item is the one kept.
MergeStepFrozenWins(it) ==
    LET m == it.iter_memtable_mut
        f == it.iter_memtable_immut
        pm == Peek(m)
        pf == PeekImmut(f)
        takeMut == [item |-> Head(m), it |-> [it EXCEPT !.iter_memtable_mut = Tail(m)]]
        takeImmut == [item |-> Head(f.val),
                      it |-> [it EXCEPT !.iter_memtable_immut = Some(Tail(f.val))]]
        takeBoth == [item |-> Head(f.val),
                     it |-> [it EXCEPT !.iter_memtable_mut = Tail(m),
                                       !.iter_memtable_immut = Some(Tail(f.val))]]
    IN  IF pm.some /\ pf.some
        THEN LET ord == KeyCmp(pm.val[1], pf.val[1])
             IN  IF ord = "Equal" THEN Some(takeBoth)
                 ELSE IF ord = "Less" THEN Some(takeMut)
                 ELSE Some(takeImmut)
        ELSE IF pm.some THEN Some(takeMut)
        ELSE IF pf.some THEN Some(takeImmut)
        ELSE None

\* The match of DBIterator::next: peek both cursors, consume from the one
\* that comes first (from both on equal keys, keeping the active one's
\* item).  The item taken and the iterator left; None when both are
\* exhausted.
MergeStep(it) ==
    LET m == it.iter_memtable_mut
        f == it.iter_memtable_immut
        pm == Peek(m)
        pf == PeekImmut(f)
        takeMut == [item |-> Head(m), it |-> [it EXCEPT !.iter_memtable_mut = Tail(m)]]
        takeImmut == [item |-> Head(f.val),
                      it |-> [it EXCEPT !.iter_memtable_immut = Some(Tail(f.val))]]
        takeBoth == [item |-> Head(m),
                     it |-> [it EXCEPT !.iter_memtable_mut = Tail(m),
                                       !.iter_memtable_immut = Some(Tail(f.val))]]
    IN  IF pm.some /\ pf.some
        THEN LET ord == KeyCmp(pm.val[1], pf.val[1])
             IN  IF ord = "Equal" THEN Some(takeBoth)
                 ELSE IF ord = "Less" THEN Some(takeMut)
                 ELSE Some(takeImmut)
        ELSE IF pm.some THEN Some(takeMut)
        ELSE IF pf.some THEN Some(takeImmut)
        ELSE None

\* Mutant of NextResult: a Present item is returned from the peek and its
\* cursor is not advanced.
RECURSIVE NextResultPeeksOnly(_)
NextResultPeeksOnly(it) ==
    LET step == MergeStep(it)
    IN  IF ~step.some THEN [it |-> it, ret |-> None]
        ELSE LET key == step.val.item[1]
                 value == step.val.item[2]
             IN  IF ~StartsWith(key, it.prefix)
                 THEN [it |-> step.val.it, ret |-> None]
                 ELSE IF value.tag = "Present"
                 THEN [it |-> it, ret |-> Some(<<key, value.data>>)]
                 ELSE NextResultPeeksOnly(step.val.it)

\* DBIterator::next: the loop runs until it returns; the iterator it leaves
\* and the value returned.
RECURSIVE NextResult(_)
NextResult(it) ==
    LET step == MergeStep(it)
    IN  IF ~step.some THEN [it |-> it, ret |-> None]
        ELSE LET key == step.val.item[1]
                 value == step.val.item[2]
             IN  IF ~StartsWith(key, it.prefix)
                 THEN [it |-> step.val.it, ret |-> None]
                 ELSE IF value.tag = "Present"
                 THEN [it |-> step.val.it, ret |-> Some(<<key, value.data>>)]
                 ELSE NextResult(step.val.it)

\* DB::seek
Seek(prefix) ==
    /\ ~panicked
    /\ iter' = Some(seek(prefix))
    /\ scan' = NoScan
    /\ call' = [op |-> "seek", prefix |-> prefix, ret |-> "Ok"]
    /\ UNCHANGED <<memtable, memtable_frozen, memtable_size, panicked, written>>

\* DBIterator::next on the live iterator.
IterNext ==
    /\ ~panicked
    /\ iter.some
    /\ LET r == NextResult(iter.val)
       IN  /\ iter' = Some(r.it)
           /\ scan' = IF r.ret.some
                      THEN [scan EXCEPT !.out = Append(@, r.ret.val)]
                      ELSE [scan EXCEPT !.ended = TRUE]
           /\ call' = [op |-> "next", ret |-> r.ret]
    /\ UNCHANGED <<memtable, memtable_frozen, memtable_size, panicked, written>>

\* Iterator::collect, as the tests consume a scan: the pairs returned up to
\* the first None.
RECURSIVE Collect(_)
Collect(it) ==
    LET r == NextResult(it)
    IN  IF r.ret.some THEN <<r.ret.val>> \o Collect(r.it) ELSE <<>>

\* ------------------------------------------------------------ specifications
Next ==
    \/ \E key \in Keys, value \in Values : Put(key, value)
    \/ \E key \in Keys : Delete(key)
    \/ Freeze
    \/ \E key \in Keys : Get(key)
    \/ \E prefix \in Prefixes : Seek(prefix)
    \/ IterNext

\* Every call the crate's code makes, the tests' direct freeze included.
Spec == Init /\ [][Next]_vars

NextApi ==
    \/ \E key \in Keys, value \in Values : Put(key, value)
    \/ \E key \in Keys : Delete(key)
    \/ \E key \in Keys : Get(key)
    \/ \E prefix \in Prefixes : Seek(prefix)
    \/ IterNext

\* The public interface alone: freezes happen only inside put and delete.
SpecApi == Init /\ [][NextApi]_vars

\* ------------------------------------------------------------------ claims
Writes == {"put", "delete"}

\* The sum of (key length + entry length) over a mapping's contents.
RECURSIVE MapSize(_)
MapSize(map) ==
    IF DOMAIN map = {} THEN 0
    ELSE LET k == CHOOSE x \in DOMAIN map : TRUE
         IN  Len(k) + EntryLen(map[k]) + MapSize([j \in DOMAIN map \ {k} |-> map[j]])

\* key begins with prefix, character by character.
BeginsWith(key, prefix) ==
    /\ Len(prefix) <= Len(key)
    /\ \A i \in 1..Len(prefix) : key[i] = prefix[i]

\* a comes strictly before b in lexicographic order.
Precedes(a, b) ==
    \E i \in 1..Len(b) :
        /\ i - 1 <= Len(a)
        /\ \A j \in 1..(i - 1) : a[j] = b[j]
        /\ (i > Len(a) \/ a[i] < b[i])

\* The pairs (k, v) such that k begins with prefix and the most recent
\* write to k is put(k, v).
LivePairs(prefix) ==
    {<<k, written[k].data>> :
        k \in {j \in DOMAIN written : written[j].tag = "Present" /\ BeginsWith(j, prefix)}}

Range(seq) == {seq[i] : i \in 1..Len(seq)}

StrictlyAscending(seq) ==
    \A i, j \in 1..Len(seq) : i < j => Precedes(seq[i][1], seq[j][1])

KeysInBoth ==
    IF memtable_frozen.some
    THEN DOMAIN memtable \cap DOMAIN memtable_frozen.val
    ELSE {}

\* C1: after any sequence of puts and deletes, get(k) is Some(v) for the
\* value v of the last put to k when no delete of k followed it, and None
\* when k was never written or was last deleted; every get call returns so.
C1_GetReturnsLastWrite ==
    /\ \A k \in Keys :
          get(k) = IF k \in DOMAIN written /\ written[k].tag = "Present"
                   THEN Some(written[k].data)
                   ELSE None
    /\ call.op = "get" => call.ret = get(call.key)

\* A get that found its value in the mapping frozen by a size-triggered freeze.
C1_Witness ==
    /\ call.op = "get"
    /\ call.ret.some
    /\ memtable_frozen.some
    /\ memtable_size >= MEMTABLE_MAX_SIZE_BYTES
    /\ call.key \notin DOMAIN memtable

\* C2: for every prefix p, fully consuming seek(p) yields exactly the pairs
\* (k, v) with k beginning with p and the most recent write to k being
\* put(k, v), in strictly ascending key order, each key at most once,
\* wherever k is stored; what has been yielded part-way is always among
\* those pairs and ascending.
C2_SeekYieldsLivePrefixPairs ==
    iter.some =>
        /\ Range(scan.out) \subseteq LivePairs(iter.val.prefix)
        /\ StrictlyAscending(scan.out)
        /\ scan.ended => Range(scan.out) = LivePairs(iter.val.prefix)

\* A finished scan of a non-empty prefix that yielded a key stored in both
\* mappings, passed over a smaller key and stopped at a larger one.
C2_Witness ==
    /\ iter.some
    /\ scan.ended
    /\ iter.val.prefix # <<>>
    /\ \E i \in 1..Len(scan.out) : scan.out[i][1] \in KeysInBoth
    /\ \E k \in DOMAIN written :
          written[k].tag = "Present" /\ Precedes(k, iter.val.prefix)
    /\ \E k \in DOMAIN written :
          /\ written[k].tag = "Present"
          /\ Precedes(iter.val.prefix, k)
          /\ ~BeginsWith(k, iter.val.prefix)

\* A scan of a prefix that no key matches: it ended having yielded nothing.
C2_WitnessEmpty ==
    /\ iter.some
    /\ scan.ended
    /\ scan.out = <<>>
    /\ DOMAIN written # {}

\* C3: for a key k in both the active and the frozen mapping, get and seek
\* report the active entry only: Present(v) gives get(k) = v and the pair
\* (k, v) exactly once in a finished scan whose prefix k begins with;
\* Deleted gives get(k) = None and no pair for k.  The frozen entry of k is
\* never what is returned.
C3_ActiveEntryWins ==
    \A k \in KeysInBoth :
        LET active == memtable[k]
            expected == IF active.tag = "Present" THEN {<<k, active.data>>} ELSE {}
            yielded == {i \in 1..Len(scan.out) : scan.out[i][1] = k}
        IN  /\ get(k) = IF active.tag = "Present" THEN Some(active.data) ELSE None
            /\ (call.op = "get" /\ call.key = k) => call.ret = get(k)
            /\ iter.some =>
                  /\ {scan.out[i] : i \in yielded} \subseteq expected
                  /\ Cardinality(yielded) <= 1
                  /\ (scan.ended /\ BeginsWith(k, iter.val.prefix)) =>
                        {scan.out[i] : i \in yielded} = expected

\* A finished scan that yielded a pair and passed over a key whose active
\* entry is a tombstone above a frozen value.
C3_Witness ==
    /\ iter.some
    /\ scan.ended
    /\ scan.out # <<>>
    /\ \E k \in KeysInBoth :
          /\ memtable[k].tag = "Deleted"
          /\ memtable_frozen.val[k].tag = "Present"
          /\ BeginsWith(k, iter.val.prefix)

\* C6: seek of the empty prefix yields every key whose most recent write is
\* a put, across both mappings, each once and ascending, and ends only when
\* both cursors are exhausted (never on the prefix test).
C6_SeekEmptyPrefixYieldsAll ==
    (iter.some /\ iter.val.prefix = <<>> /\ scan.ended) =>
        /\ {scan.out[i][1] : i \in 1..Len(scan.out)}
             = {k \in DOMAIN written : written[k].tag = "Present"}
        /\ Len(scan.out) = Cardinality({k \in DOMAIN written : written[k].tag = "Present"})
        /\ StrictlyAscending(scan.out)
        /\ \A i \in 1..Len(scan.out) : scan.out[i][2] = written[scan.out[i][1]].data
        /\ iter.val.iter_memtable_mut = <<>>
        /\ iter.val.iter_memtable_immut.some => iter.val.iter_memtable_immut.val = <<>>

\* A finished scan of the empty prefix that took pairs from both mappings
\* and skipped a tombstone.
C6_Witness ==
    /\ iter.some
    /\ iter.val.prefix = <<>>
    /\ scan.ended
    /\ memtable_frozen.some
    /\ \E i \in 1..Len(scan.out) : scan.out[i][1] \notin DOMAIN memtable
    /\ \E i \in 1..Len(scan.out) : scan.out[i][1] \notin DOMAIN memtable_frozen.val
    /\ \E k \in DOMAIN written : written[k].tag = "Deleted"

\* The active mapping right after the insert of the write that `call` records.
AfterInsert(map) == MapInsert(map, call'.key, call'.entry).map

\* C4 as claimed: every put and delete returns success.
C4_WritesAlwaysReturnOk ==
    call.op \in Writes => (call.ret = "Ok" /\ ~panicked)

\* C4 as amended: a put or delete never returns an error; it returns success
\* unless the write leaves the size counter at or above the threshold while
\* a frozen mapping already exists, and then the call panics on the
\* assertion instead of returning.
C4_WritesReturnOkOrPanicOnSecondFreeze ==
    [][call'.op \in Writes =>
          IF memtable_frozen.some /\ memtable_size' >= MEMTABLE_MAX_SIZE_BYTES
          THEN call'.ret = "panic" /\ panicked'
          ELSE call'.ret = "Ok" /\ ~panicked']_vars

\* A write that crossed the threshold, froze the active mapping and returned
\* success.
C4_Witness ==
    /\ call.op \in Writes
    /\ call.ret = "Ok"
    /\ memtable_frozen.some
    /\ memtable_size >= MEMTABLE_MAX_SIZE_BYTES

\* C5: a freeze attempted while a frozen mapping exists (by a write that
\* leaves the counter at or above the threshold, or by a direct call) fails
\* the assertion and leaves the frozen mapping as it was; the active mapping
\* is neither moved nor dropped.
C5_SecondFreezeAborts ==
    [][(/\ memtable_frozen.some
        /\ \/ call'.op = "freeze"
           \/ call'.op \in Writes /\ memtable_size' >= MEMTABLE_MAX_SIZE_BYTES)
       => /\ panicked'
          /\ memtable_frozen' = memtable_frozen
          /\ memtable' = IF call'.op = "freeze" THEN memtable ELSE AfterInsert(memtable)]_vars

\* A write whose freeze found a non-empty frozen mapping in place.
C5_Witness ==
    /\ panicked
    /\ call.op \in Writes
    /\ memtable_frozen.some
    /\ memtable_frozen.val # EmptyMap

\* C7: the size counter equals the sum of (key length + entry length) over
\* the active mapping's contents.
C7_SizeCounterIsActiveSum ==
    memtable_size = MapSize(memtable)

\* C8: a put or delete attempts a freeze exactly when, after the write, the
\* sum of (key length + entry length) over the active mapping's contents is
\* at or above the threshold.
C8_FreezeIffActiveSumReachesThreshold ==
    [][call'.op \in Writes =>
          ((panicked' \/ memtable_frozen' # memtable_frozen)
             <=> MapSize(AfterInsert(memtable)) >= MEMTABLE_MAX_SIZE_BYTES)]_vars

\* C9: a write that leaves the counter at or above the threshold with no
\* frozen mapping makes the frozen mapping exactly the active mapping with
\* the triggering write in it and the active mapping empty, in that call; a
\* write that leaves the counter below the threshold swaps nothing.
C9_SwapMovesWholeActiveMapping ==
    [][call'.op \in Writes =>
          /\ (memtable_size' >= MEMTABLE_MAX_SIZE_BYTES /\ ~memtable_frozen.some) =>
                /\ memtable_frozen' = Some(AfterInsert(memtable))
                /\ memtable' = EmptyMap
                /\ ~panicked'
          /\ memtable_size' < MEMTABLE_MAX_SIZE_BYTES =>
                /\ memtable' = AfterInsert(memtable)
                /\ memtable_frozen' = memtable_frozen]_vars

\* A size-triggered swap that moved several entries, the triggering write
\* (an overwrite) among them.
C9_Witness ==
    /\ call.op \in Writes
    /\ call.ret = "Ok"
    /\ call.old.some
    /\ memtable = EmptyMap
    /\ memtable_frozen.some
    /\ call.key \in DOMAIN memtable_frozen.val
    /\ memtable_frozen.val[call.key] = call.entry
    /\ Cardinality(DOMAIN memtable_frozen.val) >= 2

\* C10: a write of entry e to key k changes the counter by len(e) - len(o)
\* when k is in the active mapping with entry o, and by len(k) + len(e)
\* when it is not.
C10_CounterDelta ==
    [][call'.op \in Writes =>
          memtable_size' - memtable_size =
             IF call'.key \in DOMAIN memtable
             THEN EntryLen(call'.entry) - EntryLen(memtable[call'.key])
             ELSE Len(call'.key) + EntryLen(call'.entry)]_vars

\* An overwrite of a non-empty key that changed the entry's length.
C10_Witness ==
    /\ call.op \in Writes
    /\ call.old.some
    /\ call.key # <<>>
    /\ EntryLen(call.old.val) # EntryLen(call.entry)

\* C11 as claimed: a put or delete on a key already in the active mapping
\* leaves the active mapping's key set unchanged; only that key's entry and
\* the counter change.
C11_OverwriteKeepsKeySet ==
    [][(call'.op \in Writes /\ call'.key \in DOMAIN memtable) =>
          /\ DOMAIN memtable' = DOMAIN memtable
          /\ memtable'[call'.key] = call'.entry
          /\ \A k \in DOMAIN memtable \ {call'.key} : memtable'[k] = memtable[k]
          /\ memtable_frozen' = memtable_frozen]_vars

\* C11 as amended: the mapping that the overwrite leaves has the same key
\* set, the new entry under that key and every other entry as before; it
\* stays the active mapping, with the frozen mapping untouched, unless the
\* write leaves the counter at or above the threshold with no frozen
\* mapping in place, and then it becomes the frozen mapping and the active
\* mapping is left empty.
C11_OverwriteKeepsKeySetUpToFreeze ==
    [][(call'.op \in Writes /\ call'.key \in DOMAIN memtable) =>
          LET swapped == memtable_size' >= MEMTABLE_MAX_SIZE_BYTES /\ ~memtable_frozen.some
              left == IF swapped THEN memtable_frozen'.val ELSE memtable'
          IN  /\ swapped => (memtable_frozen'.some /\ memtable' = EmptyMap)
              /\ ~swapped => memtable_frozen' = memtable_frozen
              /\ DOMAIN left = DOMAIN memtable
              /\ left[call'.key] = call'.entry
              /\ \A k \in DOMAIN memtable \ {call'.key} : left[k] = memtable[k]]_vars

\* An overwrite, with another key beside it, that changed the entry and
\* froze nothing.
C11_Witness ==
    /\ call.op \in Writes
    /\ call.ret = "Ok"
    /\ call.old.some
    /\ call.old.val # call.entry
    /\ call.key \in DOMAIN memtable
    /\ memtable[call.key] = call.entry
    /\ Cardinality(DOMAIN memtable) >= 2

\* C12: once a frozen mapping exists no call changes it: every write, read,
\* scan step and refused freeze leaves it equal to the snapshot taken at the
\* freeze.
C12_FrozenNeverChanges ==
    [][memtable_frozen.some => memtable_frozen' = memtable_frozen]_vars

\* A write, after the freeze, to a key the frozen mapping holds: the active
\* mapping has the new entry and the frozen mapping still the old one.
C12_Witness ==
    /\ call.op \in Writes
    /\ call.ret = "Ok"
    /\ memtable_frozen.some
    /\ call.key \in DOMAIN memtable
    /\ call.key \in DOMAIN memtable_frozen.val
    /\ memtable[call.key] = call.entry
    /\ memtable_frozen.val[call.key] # call.entry

\* C13: a delete that swaps nothing leaves its key in the active mapping with
\* a Deleted entry, whatever was known of the key before; and no step
\* shrinks the active mapping's key set except the swap that empties it into
\* the frozen slot.
C13_DeleteLeavesTombstone ==
    [][/\ (call'.op = "delete" /\ memtable_frozen' = memtable_frozen) =>
             /\ call'.key \in DOMAIN memtable'
             /\ memtable'[call'.key] = Deleted
       /\ \/ DOMAIN memtable \subseteq DOMAIN memtable'
          \/ /\ memtable' = EmptyMap
             /\ ~memtable_frozen.some
             /\ memtable_frozen'.some
             /\ DOMAIN memtable \subseteq DOMAIN memtable_frozen'.val]_vars

\* A delete of a key held only by the frozen mapping: the active mapping
\* now has its tombstone.
C13_Witness ==
    /\ call.op = "delete"
    /\ call.ret = "Ok"
    /\ ~call.old.some
    /\ memtable_frozen.some
    /\ call.key \in DOMAIN memtable_frozen.val
    /\ memtable_frozen.val[call.key].tag = "Present"
    /\ call.key \in DOMAIN memtable
    /\ memtable[call.key] = Deleted

\* A delete of a key never written before.
C13_WitnessNeverWritten ==
    /\ call.op = "delete"
    /\ call.ret = "Ok"
    /\ ~call.old.some
    /\ ~memtable_frozen.some
    /\ call.key \in DOMAIN memtable
    /\ memtable[call.key] = Deleted

\* The items the two cursors of an iterator still hold, and their number.
CursorItems(it) ==
    Range(it.iter_memtable_mut)
        \cup (IF it.iter_memtable_immut.some THEN Range(it.iter_memtable_immut.val) ELSE {})

Remaining(it) ==
    Len(it.iter_memtable_mut)
        + (IF it.iter_memtable_immut.some THEN Len(it.iter_memtable_immut.val) ELSE 0)

\* C14: once next() has returned None the scan is over: neither cursor holds
\* a key that begins with the prefix, the call that was just made did not
\* return a pair, and the next call returns None again.
C14_EndIsFinal ==
    (iter.some /\ scan.ended) =>
        /\ \A item \in CursorItems(iter.val) : ~BeginsWith(item[1], iter.val.prefix)
        /\ call.op = "next" => ~call.ret.some
        /\ ~NextResult(iter.val).ret.some

\* A scan that yielded a pair and ended on the prefix test with keys still
\* in a cursor.
C14_Witness ==
    /\ iter.some
    /\ scan.ended
    /\ scan.out # <<>>
    /\ CursorItems(iter.val) # {}

\* Each pass of the loop of next(), followed from iterator it to the pass
\* that returns, takes at least one item from a cursor unless both are
\* exhausted.
RECURSIVE EveryPassConsumes(_)
EveryPassConsumes(it) ==
    LET step == MergeStep(it)
    IN  step.some =>
            /\ Remaining(step.val.it) < Remaining(it)
            /\ (BeginsWith(step.val.item[1], it.prefix) /\ step.val.item[2].tag = "Deleted")
                  => EveryPassConsumes(step.val.it)

\* C15: every pass of next() ends the scan or consumes from a cursor, and
\* the pairs yielded plus the items still held never exceed the number of
\* active keys plus the number of frozen keys, so a scan yields at most
\* that many pairs.
C15_ScanIsFinite ==
    iter.some =>
        LET total == Cardinality(DOMAIN memtable)
                       + (IF memtable_frozen.some
                          THEN Cardinality(DOMAIN memtable_frozen.val) ELSE 0)
        IN  /\ EveryPassConsumes(iter.val)
            /\ Len(scan.out) + Remaining(iter.val) <= total
            /\ Len(scan.out) <= total

\* A scan that ran both cursors dry, skipped a tombstone of its prefix and
\* yielded two pairs.
C15_Witness ==
    /\ iter.some
    /\ scan.ended
    /\ Remaining(iter.val) = 0
    /\ Len(scan.out) >= 2
    /\ \E k \in DOMAIN memtable :
          memtable[k] = Deleted /\ BeginsWith(k, iter.val.prefix)

\* C16: in every state, get(k) is Some(v) exactly when the scan of the empty
\* prefix contains (k, v), and None exactly when it contains no pair with
\* key k; a scan of the empty prefix that has been run to its end shows the
\* same pairs.
C16_GetAgreesWithSeek ==
    /\ LET pairs == Range(Collect(seek(<<>>)))
       IN  \A k \in Keys :
               {pair \in pairs : pair[1] = k}
                   = IF get(k).some THEN {<<k, get(k).val>>} ELSE {}
    /\ (iter.some /\ iter.val.prefix = <<>> /\ scan.ended) =>
          \A k \in Keys :
              {pair \in Range(scan.out) : pair[1] = k}
                  = IF get(k).some THEN {<<k, get(k).val>>} ELSE {}

\* A finished scan of the empty prefix over a store where get finds one key
\* in the frozen mapping only and finds another key deleted above a frozen
\* value.
C16_Witness ==
    /\ iter.some
    /\ iter.val.prefix = <<>>
    /\ scan.ended
    /\ memtable_frozen.some
    /\ \E k \in DOMAIN memtable_frozen.val \ DOMAIN memtable : get(k).some
    /\ \E k \in KeysInBoth :
          memtable[k] = Deleted /\ memtable_frozen.val[k].tag = "Present"

\* C17: get, seek and next leave the active mapping, the frozen mapping and
\* the counter unchanged; so after each next, a new seek of the same prefix,
\* consumed whole, begins with the pairs yielded so far and, once the scan
\* has ended, is equal to them.
C17_ReadsChangeNothing ==
    [][/\ call'.op \in {"get", "seek", "next"} =>
             UNCHANGED <<memtable, memtable_frozen, memtable_size>>
       /\ call'.op = "next" =>
             LET again == Collect(SeekResult(memtable', memtable_frozen', iter'.val.prefix))
             IN  /\ Len(scan'.out) <= Len(again)
                 /\ scan'.out = SubSeq(again, 1, Len(scan'.out))
                 /\ scan'.ended => scan'.out = again]_vars

\* A scan over both mappings that has yielded a pair and has not ended.
C17_Witness ==
    /\ iter.some
    /\ call.op = "next"
    /\ call.ret.some
    /\ ~scan.ended
    /\ memtable_frozen.some
    /\ memtable # EmptyMap
    /\ Remaining(iter.val) > 0

====
